---------------------------- MODULE Spec2Model ----------------------------
(***************************************************************************)
(* Model of resticprofile's schedule translation:                          *)
(*   - schtasks.Task (Windows Task Scheduler builder): NewTask,            *)
(*     AddExecAction, AddSchedules and the add*Trigger helpers,            *)
(*     compileDifferences, getRepetitionDuration, convert*;                *)
(*   - schedule.loadSchedules (systemd path).                              *)
(* Instants are whole minutes counted from 2024-01-01T00:00 local time (a  *)
(* Monday); the events of the model fire on whole minutes, so durations    *)
(* are minutes too.  Days are 24 hours long (no DST change).               *)
(***************************************************************************)
EXTENDS Integers, Sequences, FiniteSets, TLC

VARIABLES
    task,       \* the schtasks.Task document under construction
    warnings,   \* what clog.Warningf has been given, in order
    clock,      \* the last value time.Now() returned
    ops,        \* exec actions and events handed to the builder so far
    journal,    \* history of the last AddSchedules call, one entry per event
    ld,         \* loadSchedules: the call's frame (inputs, loop position, result)
    cd          \* compileDifferences: an input and, once applied, its result

vars == <<task, warnings, clock, ops, journal, ld, cd>>

-----------------------------------------------------------------------------
(* Bounds of the model *)

\* exec actions and events handed to the builder over a whole run
MaxOps == 2
\* length of the schedule list given to loadSchedules
MaxSchedules == 3
\* length of the instant list given to compileDifferences
MaxLen == 3
\* largest instant in a list given to compileDifferences
MaxInstant == 3
\* days the event evaluator searches forward from the epoch
HorizonDays == 400

-----------------------------------------------------------------------------
(* Time and calendar (package calendar, time) *)

MinutesPerDay == 24 * 60

\* the zero time.Time that Event.Next returns when nothing fires
NoTime == -1

IsLeap(y) == (y % 4 = 0 /\ y % 100 # 0) \/ y % 400 = 0

DaysInMonth(y, m) ==
    IF m = 2 THEN (IF IsLeap(y) THEN 29 ELSE 28)
    ELSE IF m \in {4, 6, 9, 11} THEN 30 ELSE 31

RECURSIVE DateFrom(_, _, _)
DateFrom(d, y, m) ==
    IF d < DaysInMonth(y, m) THEN [Y |-> y, Mo |-> m, D |-> d + 1]
    ELSE DateFrom(d - DaysInMonth(y, m),
                  IF m = 12 THEN y + 1 ELSE y,
                  IF m = 12 THEN 1 ELSE m + 1)

\* civil date of each day of the horizon; day 0 is 2024-01-01
Date[d \in 0..(HorizonDays + 2)] == DateFrom(d, 2024, 1)

\* time.Weekday of a day: Sunday = 0; day 0 is a Monday
WeekdayOf(d) == (d + 1) % 7

DayIndex(y, m, dom) ==
    CHOOSE d \in DOMAIN Date : Date[d] = [Y |-> y, Mo |-> m, D |-> dom]

\* time.Time.Format(dateFormat): the broken-down local time, no zone
Format(t) ==
    LET dt == Date[t \div MinutesPerDay]
        tod == t % MinutesPerDay
    IN  [Y |-> dt.Y, Mo |-> dt.Mo, D |-> dt.D, h |-> tod \div 60, mi |-> tod % 60]

-----------------------------------------------------------------------------
(* calendar.Event: field constraints.  A field is the set of the values it *)
(* admits, the empty set when it is the wildcard (HasValue is false).      *)
(* Times lists the minutes of the day the hour/minute fields admit,        *)
(* ascending.                                                              *)

HasValue(field) == field # {}

Ev(name, year, month, day, weekday, times) ==
    [name |-> name, Year |-> year, Month |-> month, Day |-> day,
     WeekDay |-> weekday, Times |-> times]

Every(step, n) == [i \in 1..n |-> (i - 1) * step]

\* every 30 minutes, the last firing one minute late: 48 firings, uneven
Uneven48 == [i \in 1..48 |-> IF i = 48 THEN 1411 ELSE (i - 1) * 30]
\* every 30 minutes and 00:01 as well: 49 firings, uneven
Uneven49 == [i \in 1..49 |-> IF i = 1 THEN 0 ELSE IF i = 2 THEN 1 ELSE (i - 2) * 30]

Events ==
    { Ev("2024-03-10 03:00", {2024}, {3}, {10}, {}, <<180>>),
      Ev("03:00", {}, {}, {}, {}, <<180>>),
      Ev("01..04:00", {}, {}, {}, {}, <<60, 120, 180, 240>>),
      Ev("*:0/29", {}, {}, {}, {}, Every(29, 50)),
      Ev("00:00,23:59", {}, {}, {}, {}, <<0, 1439>>),
      Ev("uneven48", {}, {}, {}, {}, Uneven48),
      Ev("uneven49", {}, {}, {}, {}, Uneven49),
      Ev("Mon,Sun 01..03:00", {}, {}, {}, {1, 7}, <<60, 120, 180>>),
      Ev("Sat 04:00", {}, {}, {}, {6}, <<240>>),
      Ev("Mon,Wed uneven49", {}, {}, {}, {1, 3}, Uneven49),
      Ev("Jan,Jul-15 02:00,05:00", {}, {1, 7}, {15}, {}, <<120, 300>>),
      Ev("Mon *-15 02:00", {}, {}, {15}, {1}, <<120>>),
      Ev("02-30 02:00", {}, {2}, {30}, {}, <<120>>),
      Ev("*-01 uneven49", {}, {}, {1}, {}, Uneven49),
      Ev("Mar 02:00", {}, {3}, {}, {}, <<120>>) }

\* values time.Now() takes: 2024-01-01T00:00 and 2024-01-01T02:30
NowValues == {0, 150}

-----------------------------------------------------------------------------
(* Event evaluator (package calendar) *)

\* whether day d satisfies the year, month, day and weekday fields together
DayMatches(e, d) ==
    /\ (HasValue(e.Year) => Date[d].Y \in e.Year)
    /\ (HasValue(e.Month) => Date[d].Mo \in e.Month)
    /\ (HasValue(e.Day) => Date[d].D \in e.Day)
    /\ (HasValue(e.WeekDay) =>
            \/ WeekdayOf(d) \in e.WeekDay
            \/ (WeekdayOf(d) = 0 /\ 7 \in e.WeekDay))

\* the firings of e on day d at or after minute-of-day m, ascending
FiringsOn(e, d, m) ==
    IF DayMatches(e, d)
    THEN LET late == SelectSeq(e.Times, LAMBDA x : x >= m)
         IN  [i \in 1..Len(late) |-> d * MinutesPerDay + late[i]]
    ELSE <<>>

\* Event.Next: the first firing at or after minute m of day d within the
\* horizon, else NoTime; the search goes month by month
RECURSIVE NextFrom(_, _, _)
NextFrom(e, d, m) ==
    IF d > HorizonDays THEN NoTime
    ELSE LET monthEnd == d + (DaysInMonth(Date[d].Y, Date[d].Mo) - Date[d].D)
             from(x) == IF x = d THEN m ELSE 0
             days == { x \in d..monthEnd :
                         /\ x <= HorizonDays
                         /\ DayMatches(e, x)
                         /\ e.Times[Len(e.Times)] >= from(x) }
         IN  IF days = {} THEN NextFrom(e, monthEnd + 1, 0)
             ELSE LET x == CHOOSE x \in days : \A y \in days : x <= y
                  IN  FiringsOn(e, x, from(x))[1]

EventNext(e, t0) == NextFrom(e, t0 \div MinutesPerDay, t0 % MinutesPerDay)

\* Event.GetAllInBetween: every firing in [from, to), ascending
RECURSIVE FiringsFrom(_, _, _, _)
FiringsFrom(e, d, m, to) ==
    IF d * MinutesPerDay >= to THEN <<>>
    ELSE SelectSeq(FiringsOn(e, d, m), LAMBDA x : x < to)
            \o FiringsFrom(e, d + 1, 0, to)

GetAllInBetween(e, from, to) ==
    IF from = NoTime THEN <<>>
    ELSE FiringsFrom(e, from \div MinutesPerDay, from % MinutesPerDay, to)

\* Event.AsTime: (instant, ok); ok when every field names a single value
AsTimeOk(e) ==
    /\ Cardinality(e.Year) = 1 /\ Cardinality(e.Month) = 1
    /\ Cardinality(e.Day) = 1 /\ Len(e.Times) = 1

AsTime(e) ==
    LET y == CHOOSE v \in e.Year : TRUE
        m == CHOOSE v \in e.Month : TRUE
        dom == CHOOSE v \in e.Day : TRUE
    IN  DayIndex(y, m, dom) * MinutesPerDay + e.Times[1]

IsDaily(e) ==
    ~HasValue(e.WeekDay) /\ ~HasValue(e.Day) /\ ~HasValue(e.Month) /\ ~HasValue(e.Year)

IsWeekly(e) == HasValue(e.WeekDay) /\ ~HasValue(e.Day)

IsMonthly(e) ==
    (HasValue(e.Day) \/ HasValue(e.WeekDay)) /\ ~IsDaily(e) /\ ~IsWeekly(e)

\* FieldValue.GetRangeValues: the admitted values, ascending
RECURSIVE RangeValuesOf(_)
RangeValuesOf(S) ==
    IF S = {} THEN <<>>
    ELSE LET m == CHOOSE x \in S : \A y \in S : x <= y
         IN  <<m>> \o RangeValuesOf(S \ {m})

GetRangeValues(field) == RangeValuesOf(field)

-----------------------------------------------------------------------------
(* period.Period (rickb777/period), as far as this code uses it: a period  *)
(* under two days is held as hours and minutes.                            *)

NewHMS(h, m) == [H |-> h, M |-> m]

\* period.NewOf: the period of a duration
NewOf(d) == [H |-> d \div 60, M |-> d % 60]

\* period.Between(a, b)
Between(a, b) == NewOf(b - a)

\* Period.DurationApprox
DurationApprox(p) == p.H * 60 + p.M

\* Period.Normalise(false): minutes carried into hours
Normalise(p) == NewOf(DurationApprox(p))

-----------------------------------------------------------------------------
(* schtasks: the Task document *)

\* a nil pointer or slice, and a pointer to a value
Nil == <<>>
Ptr(x) == <<x>>

\* the schedule and repetition fields a CalendarTrigger literal leaves out
CalendarTrigger(startBoundary) ==
    [StartBoundary |-> startBoundary, ScheduleByDay |-> Nil, ScheduleByWeek |-> Nil,
     ScheduleByMonth |-> Nil, ScheduleByMonthDayOfWeek |-> Nil, Repetition |-> Nil]

maxTriggers == 48

AllWeeks == {"1", "2", "3", "4", "Last"}

MonthNames ==
    <<"January", "February", "March", "April", "May", "June", "July",
      "August", "September", "October", "November", "December">>

convertMonths(input) ==
    IF Len(input) = 0 THEN { MonthNames[i] : i \in 1..12 }
    ELSE { MonthNames[input[i]] : i \in { j \in 1..Len(input) : input[j] \in 1..12 } }

convertDaysOfMonth(input) ==
    IF Len(input) = 0 THEN [i \in 1..31 |-> i] ELSE input

WeekdayNames ==
    <<"Monday", "Tuesday", "Wednesday", "Thursday", "Friday", "Saturday">>

convertWeekdays(input) ==
    { IF input[i] \in {0, 7} THEN "Sunday" ELSE WeekdayNames[input[i]] :
        i \in { j \in 1..Len(input) : input[j] \in 0..7 } }

NewTask(now) ==
    [RegistrationInfo |-> [Date |-> Format(now), Author |-> "resticprofile"],
     Triggers |-> [TimeTrigger |-> Nil, CalendarTrigger |-> Nil],
     Principals |-> [Principal |-> [ID |-> "Author", LogonType |-> "InteractiveToken",
                                    RunLevel |-> "Default",
                                    UserId |-> "uid"]],
     Settings |-> [Compatibility |-> "AT", DisallowStartIfOnBatteries |-> TRUE,
                   IdleSettings |-> [Duration |-> NewHMS(0, 10), WaitTimeout |-> NewHMS(1, 0),
                                     StopOnIdleEnd |-> TRUE],
                   MultipleInstancesPolicy |-> "IgnoreNew", Priority |-> "defaultPriority",
                   StopIfGoingOnBatteries |-> TRUE, UseUnifiedSchedulingEngine |-> TRUE],
     Actions |-> [Context |-> "Author", Exec |-> Nil]]

\* The builder operations below take and return b = [task, warnings]: the
\* receiver *Task and the log clog.Warningf writes to.

Warningf(b, msg) == [b EXCEPT !.warnings = Append(@, msg)]

AddExecActionTo(t, action) ==
    IF t.Actions.Exec = Nil
    THEN [t EXCEPT !.Actions.Exec = <<action>>]
    ELSE [t EXCEPT !.Actions.Exec = Append(@, action)]

addTimeTrigger(b, triggerOnce) ==
    LET timeTrigger == [StartBoundary |-> Format(triggerOnce)]
    IN  IF b.task.Triggers.TimeTrigger = Nil
        THEN [b EXCEPT !.task.Triggers.TimeTrigger = <<timeTrigger>>]
        ELSE [b EXCEPT !.task.Triggers.TimeTrigger = Append(@, timeTrigger)]

\* a variant that takes the branch of the nil list every time
addCalendarTrigger_Replaces(b, trigger) ==
    [b EXCEPT !.task.Triggers.CalendarTrigger = <<trigger>>]

addCalendarTrigger(b, trigger) ==
    IF b.task.Triggers.CalendarTrigger = Nil
    THEN [b EXCEPT !.task.Triggers.CalendarTrigger = <<trigger>>]
    ELSE [b EXCEPT !.task.Triggers.CalendarTrigger = Append(@, trigger)]

\* "for _, x := range xs[lo..hi] { acc = step(acc, x) }": the passes run in
\* order, the left half before the right half.  Both branches of the test
\* continue from the result of the left half; the test only makes TLC
\* finish the left half before it starts the right one.
RECURSIVE Range(_, _, _, _, _)
Range(step(_, _), acc, xs, lo, hi) ==
    IF lo > hi THEN acc
    ELSE IF lo = hi THEN step(acc, xs[lo])
    ELSE LET mid == (lo + hi) \div 2
             left == Range(step, acc, xs, lo, mid)
         IN  IF left = acc
             THEN Range(step, acc, xs, mid + 1, hi)
             ELSE Range(step, left, xs, mid + 1, hi)

-----------------------------------------------------------------------------
(* compileDifferences and getRepetitionDuration *)

\* a variant that keeps every difference, equal to the previous one or not
compactPass_KeepsAll(acc, difference) ==
    [compactDifferences |-> Append(acc.compactDifferences, difference),
     previous |-> difference]

\* one pass of the second loop of compileDifferences: a difference is kept
\* when it differs from the last one kept
compactPass(acc, difference) ==
    IF difference # acc.previous
    THEN [compactDifferences |-> Append(acc.compactDifferences, difference),
          previous |-> difference]
    ELSE acc

\* a variant that allocates len(recurrences) differences: nothing panics, and
\* the last difference stays zero
compileDifferences_OneTooMany(recurrences) ==
    LET differences ==
            [i \in 1..Len(recurrences) |->
                IF i < Len(recurrences) THEN recurrences[i + 1] - recurrences[i] ELSE 0]
    IN  [panic |-> FALSE, differences |-> differences,
         compact |-> Range(compactPass, [compactDifferences |-> <<>>, previous |-> 0],
                           differences, 1, Len(differences)).compactDifferences]

\* make([]time.Duration, len(recurrences)-1) panics on a negative length
compileDifferences(recurrences) ==
    IF Len(recurrences) - 1 < 0
    THEN [panic |-> TRUE, differences |-> <<>>, compact |-> <<>>]
    ELSE LET differences ==
                 [i \in 1..(Len(recurrences) - 1) |-> recurrences[i + 1] - recurrences[i]]
         IN  [panic |-> FALSE, differences |-> differences,
              compact |-> Range(compactPass, [compactDifferences |-> <<>>, previous |-> 0],
                               differences, 1, Len(differences)).compactDifferences]

\* a variant that measures up to the first recurrence instead of the last
getRepetitionDuration_First(start, recurrences) ==
    LET last == recurrences[1]
        duration == Between(start, last)
    IN  IF DurationApprox(duration) = 1439 THEN NewHMS(0, 1440) ELSE duration

\* a variant without the promotion of 1439 minutes
getRepetitionDuration_NoPromotion(start, recurrences) ==
    Between(start, recurrences[Len(recurrences)])

getRepetitionDuration(start, recurrences) ==
    LET last == recurrences[Len(recurrences)]
        duration == Between(start, last)
    IN  IF DurationApprox(duration) = 1439 THEN NewHMS(0, 1440) ELSE duration

-----------------------------------------------------------------------------
(* Trigger synthesis *)

ScheduleByDay1 == [DaysInterval |-> 1]

ScheduleByWeek1(schedule) ==
    [WeeksInterval |-> 1, DaysOfWeek |-> convertWeekdays(GetRangeValues(schedule.WeekDay))]

RepetitionOf(start, recurrences, compactDifferences) ==
    [Duration |-> Normalise(getRepetitionDuration(start, recurrences)),
     Interval |-> Normalise(NewOf(compactDifferences[1]))]

\* a variant that installs every recurrence without looking at maxTriggers
addDailyTrigger_NoCap(b, schedule, now) ==
    LET start == EventNext(schedule, now)
        recurrences == GetAllInBetween(schedule, start, start + MinutesPerDay)
        cdiff == compileDifferences(recurrences)
        one(bb, recurrence) ==
            addCalendarTrigger(bb, [CalendarTrigger(Format(recurrence))
                                      EXCEPT !.ScheduleByDay = Ptr(ScheduleByDay1)])
    IN  IF Len(recurrences) = 0
        THEN Warningf(b, "cannot convert schedule into a daily trigger")
        ELSE IF Len(recurrences) = 1
        THEN one(b, recurrences[1])
        ELSE IF Len(cdiff.compact) = 1
        THEN addCalendarTrigger(b,
                 [CalendarTrigger(Format(start))
                    EXCEPT !.ScheduleByDay = Ptr(ScheduleByDay1),
                           !.Repetition = Ptr(RepetitionOf(start, recurrences, cdiff.compact))])
        ELSE Range(one, b, recurrences, 1, Len(recurrences))

addDailyTrigger(b, schedule, now) ==
    LET start == EventNext(schedule, now)
        recurrences == GetAllInBetween(schedule, start, start + MinutesPerDay)
        cdiff == compileDifferences(recurrences)
        one(bb, recurrence) ==
            addCalendarTrigger(bb, [CalendarTrigger(Format(recurrence))
                                      EXCEPT !.ScheduleByDay = Ptr(ScheduleByDay1)])
    IN  IF Len(recurrences) = 0
        THEN Warningf(b, "cannot convert schedule into a daily trigger")
        ELSE IF Len(recurrences) = 1
        THEN one(b, recurrences[1])
        ELSE IF Len(cdiff.compact) = 1
        THEN addCalendarTrigger(b,
                 [CalendarTrigger(Format(start))
                    EXCEPT !.ScheduleByDay = Ptr(ScheduleByDay1),
                           !.Repetition = Ptr(RepetitionOf(start, recurrences, cdiff.compact))])
        ELSE IF Len(recurrences) > maxTriggers
        THEN Warningf(b, "this task would need more than maxTriggers triggers")
        ELSE Range(one, b, recurrences, 1, Len(recurrences))

addWeeklyTrigger(b, schedule, now) ==
    LET start == EventNext(schedule, now)
        recurrences == GetAllInBetween(schedule, start, start + MinutesPerDay)
        cdiff == compileDifferences(recurrences)
        one(bb, recurrence) ==
            addCalendarTrigger(bb, [CalendarTrigger(Format(recurrence))
                                      EXCEPT !.ScheduleByWeek = Ptr(ScheduleByWeek1(schedule))])
    IN  IF Len(recurrences) = 0
        THEN Warningf(b, "cannot convert schedule into a weekly trigger")
        ELSE IF Len(recurrences) = 1
        THEN one(b, recurrences[1])
        ELSE IF Len(cdiff.compact) = 1
        THEN addCalendarTrigger(b,
                 [CalendarTrigger(Format(start))
                    EXCEPT !.ScheduleByWeek = Ptr(ScheduleByWeek1(schedule)),
                           !.Repetition = Ptr(RepetitionOf(start, recurrences, cdiff.compact))])
        ELSE IF Len(recurrences) > maxTriggers
        THEN Warningf(b, "this task would need more than maxTriggers triggers")
        ELSE Range(one, b, recurrences, 1, Len(recurrences))

\* the trigger the loop of addMonthlyTrigger builds for one recurrence
monthlyTrigger(schedule, recurrence) ==
    IF HasValue(schedule.WeekDay)
    THEN [CalendarTrigger(Format(recurrence))
            EXCEPT !.ScheduleByMonthDayOfWeek =
                Ptr([DaysOfWeek |-> convertWeekdays(GetRangeValues(schedule.WeekDay)),
                     Weeks |-> AllWeeks,
                     Months |-> convertMonths(GetRangeValues(schedule.Month))])]
    ELSE [CalendarTrigger(Format(recurrence))
            EXCEPT !.ScheduleByMonth =
                Ptr([DaysOfMonth |-> convertDaysOfMonth(GetRangeValues(schedule.Day)),
                     Months |-> convertMonths(GetRangeValues(schedule.Month))])]

\* a variant without the exclusivity test: with both fields set it emits one
\* trigger that carries the days of the month and the days of the week
monthlyPass_Both(schedule, acc, recurrence) ==
    IF acc.returned THEN acc
    ELSE IF HasValue(schedule.WeekDay) /\ HasValue(schedule.Day)
    THEN [b |-> addCalendarTrigger(acc.b,
                   [monthlyTrigger(schedule, recurrence)
                      EXCEPT !.ScheduleByMonth =
                          Ptr([DaysOfMonth |-> convertDaysOfMonth(GetRangeValues(schedule.Day)),
                               Months |-> convertMonths(GetRangeValues(schedule.Month))])]),
          returned |-> FALSE]
    ELSE [b |-> addCalendarTrigger(acc.b, monthlyTrigger(schedule, recurrence)),
          returned |-> FALSE]

\* one pass of the loop of addMonthlyTrigger; acc.returned once it has returned
monthlyPass(schedule, acc, recurrence) ==
    IF acc.returned THEN acc
    ELSE IF HasValue(schedule.WeekDay) /\ HasValue(schedule.Day)
    THEN [b |-> Warningf(acc.b, "day of the month and day of the week in the same trigger"),
          returned |-> TRUE]
    ELSE [b |-> addCalendarTrigger(acc.b, monthlyTrigger(schedule, recurrence)),
          returned |-> FALSE]

addMonthlyTrigger(b, schedule, now) ==
    LET start == EventNext(schedule, now)
        recurrences == GetAllInBetween(schedule, start, start + MinutesPerDay)
        pass(acc, recurrence) == monthlyPass(schedule, acc, recurrence)
    IN  IF Len(recurrences) = 0
        THEN Warningf(b, "cannot convert schedule into a monthly trigger")
        ELSE IF Len(recurrences) > maxTriggers
        THEN Warningf(b, "this task would need more than maxTriggers triggers")
        ELSE Range(pass, [b |-> b, returned |-> FALSE], recurrences, 1, Len(recurrences)).b

\* a variant where the monthly case lacks its "continue" and falls through to
\* the final warning
addSchedule_FallThrough(b, schedule, now) ==
    IF AsTimeOk(schedule) THEN addTimeTrigger(b, AsTime(schedule))
    ELSE IF IsDaily(schedule) THEN addDailyTrigger(b, schedule, now)
    ELSE IF IsWeekly(schedule) THEN addWeeklyTrigger(b, schedule, now)
    ELSE IF IsMonthly(schedule)
    THEN Warningf(addMonthlyTrigger(b, schedule, now),
                  "cannot convert schedule into a task scheduler equivalent")
    ELSE Warningf(b, "cannot convert schedule into a task scheduler equivalent")

\* the body of the loop of AddSchedules, for one schedule
addSchedule(b, schedule, now) ==
    IF AsTimeOk(schedule) THEN addTimeTrigger(b, AsTime(schedule))
    ELSE IF IsDaily(schedule) THEN addDailyTrigger(b, schedule, now)
    ELSE IF IsWeekly(schedule) THEN addWeeklyTrigger(b, schedule, now)
    ELSE IF IsMonthly(schedule) THEN addMonthlyTrigger(b, schedule, now)
    ELSE Warningf(b, "cannot convert schedule into a task scheduler equivalent")

\* the builders before the loop of AddSchedules and after each of its passes:
\* passes[i + 1] is the builder once schedules[1..i] are done; nows[i] is what
\* time.Now() returns during pass i
RECURSIVE addSchedulesPasses(_, _, _)
addSchedulesPasses(passes, schedules, nows) ==
    IF Len(passes) > Len(schedules) THEN passes
    ELSE addSchedulesPasses(
             Append(passes, addSchedule(passes[Len(passes)], schedules[Len(passes)],
                                        nows[Len(passes)])),
             schedules, nows)

-----------------------------------------------------------------------------
(* The Task builder as a state machine *)

ExecActions ==
    { [Command |-> "resticprofile", Arguments |-> "backup"],
      [Command |-> "resticprofile", Arguments |-> "check"] }

NoCall == [schedules |-> <<>>, nows |-> <<>>, passes |-> <<>>]

\* no error (a nil error), errors.New("empty schedule"), and the error
\* cmd.Run returns when the analyzer exits with a code other than 0
NoError == Nil
EmptyScheduleError == Ptr([msg |-> "empty schedule"])
ExitError(code) == Ptr([msg |-> "exit status", code |-> code])

IdleLoad == [pc |-> "idle", schedules |-> <<>>, exit |-> <<>>, index |-> 1,
             invoked |-> <<>>, printed |-> <<>>, events |-> <<>>, err |-> NoError]

IdleCd == [recurrences |-> <<>>, applied |-> FALSE, result |-> <<>>]

TaskInit ==
    /\ clock = 0
    /\ task = NewTask(clock)
    /\ warnings = <<>>
    /\ ops = 0
    /\ journal = NoCall

AddExecAction ==
    /\ ops < MaxOps
    /\ \E action \in ExecActions : task' = AddExecActionTo(task, action)
    /\ ops' = ops + 1
    /\ UNCHANGED <<warnings, clock, journal, ld, cd>>

\* what the journal keeps of the builder after a pass: the lengths of its lists
Sizes(b) ==
    [calendar |-> Len(b.task.Triggers.CalendarTrigger),
     time |-> Len(b.task.Triggers.TimeTrigger),
     warnings |-> Len(b.warnings)]

\* the clock never runs backwards
Ascending(nows, from) ==
    \A i \in 1..Len(nows) : nows[i] >= (IF i = 1 THEN from ELSE nows[i - 1])

\* what a call of AddSchedules leaves, given the builders of its passes
AddSchedulesReturns(schedules, nows, passes) ==
    /\ task' = passes[Len(passes)].task
    /\ warnings' = passes[Len(passes)].warnings
    /\ journal' = [schedules |-> schedules, nows |-> nows,
                   passes |-> [i \in 1..Len(passes) |-> Sizes(passes[i])]]
    /\ clock' = IF nows = <<>> THEN clock ELSE nows[Len(nows)]
    /\ ops' = ops + Len(schedules)
    /\ UNCHANGED <<ld, cd>>

AddSchedules ==
    \E n \in 0..(MaxOps - ops) :
      \E schedules \in [1..n -> Events], nows \in [1..n -> NowValues] :
        /\ Ascending(nows, clock)
        /\ AddSchedulesReturns(schedules, nows,
               addSchedulesPasses(<<[task |-> task, warnings |-> warnings]>>,
                                  schedules, nows))

Init == TaskInit /\ ld = IdleLoad /\ cd = IdleCd

Next == AddExecAction \/ AddSchedules

Spec == Init /\ [][Next]_vars

-----------------------------------------------------------------------------
(* loadSchedules (systemd path) as a state machine, one loop pass per step. *)
(* Indices are counted from 1 here: index i is Go's index i - 1, and the   *)
(* line printed before the analyzer runs shows index + 1, which is i.      *)
(* ld.exit[i] is the exit code systemd-analyze gives for schedules[i] if   *)
(* it is run: 0 accepts, anything else rejects.                            *)

ScheduleStrings == {"", "daily", "*:0/15"}

ExitCodes == {0, 1}

loadCall(schedules, exit) ==
    [pc |-> "loop", schedules |-> schedules, exit |-> exit, index |-> 1,
     invoked |-> <<>>, printed |-> <<>>, events |-> <<>>, err |-> NoError]

\* a variant that notes the analyzer's error and goes on with the next index
loadPass_KeepGoing(l) ==
    IF l.schedules[l.index] = ""
    THEN [l EXCEPT !.pc = "returned", !.err = EmptyScheduleError]
    ELSE [l EXCEPT !.printed = Append(@, <<l.index, Len(l.schedules)>>),
                   !.invoked = Append(@, l.index),
                   !.err = IF l.exit[l.index] # 0 THEN ExitError(l.exit[l.index]) ELSE @,
                   !.index = @ + 1]

\* a variant that wraps each error with the index of the schedule
loadPass_WrapsIndex(l) ==
    IF l.schedules[l.index] = ""
    THEN [l EXCEPT !.pc = "returned",
                   !.err = Ptr([msg |-> "empty schedule", index |-> l.index])]
    ELSE LET ran == [l EXCEPT !.printed = Append(@, <<l.index, Len(l.schedules)>>),
                              !.invoked = Append(@, l.index)]
         IN  IF l.exit[l.index] # 0
             THEN [ran EXCEPT !.pc = "returned",
                              !.err = Ptr([msg |-> "exit status",
                                           code |-> l.exit[l.index], index |-> l.index])]
             ELSE [ran EXCEPT !.index = @ + 1]

\* the body of the loop for index l.index
loadPass(l) ==
    IF l.schedules[l.index] = ""
    THEN [l EXCEPT !.pc = "returned", !.err = EmptyScheduleError]
    ELSE LET ran == [l EXCEPT !.printed = Append(@, <<l.index, Len(l.schedules)>>),
                              !.invoked = Append(@, l.index)]
         IN  IF l.exit[l.index] # 0
             THEN [ran EXCEPT !.pc = "returned", !.err = ExitError(l.exit[l.index])]
             ELSE [ran EXCEPT !.index = @ + 1]

\* the return after the loop
loadEnd(l) == [l EXCEPT !.pc = "returned", !.err = NoError]

LoadCall ==
    /\ ld.pc = "idle"
    /\ \E n \in 0..MaxSchedules :
         \E schedules \in [1..n -> ScheduleStrings], exit \in [1..n -> ExitCodes] :
           ld' = loadCall(schedules, exit)
    /\ UNCHANGED <<task, warnings, clock, ops, journal, cd>>

LoadPass ==
    /\ ld.pc = "loop"
    /\ ld.index <= Len(ld.schedules)
    /\ ld' = loadPass(ld)
    /\ UNCHANGED <<task, warnings, clock, ops, journal, cd>>

LoadEnd ==
    /\ ld.pc = "loop"
    /\ ld.index > Len(ld.schedules)
    /\ ld' = loadEnd(ld)
    /\ UNCHANGED <<task, warnings, clock, ops, journal, cd>>

LoadNext == LoadCall \/ LoadPass \/ LoadEnd

SpecLoad == Init /\ [][LoadNext]_vars

-----------------------------------------------------------------------------
(* compileDifferences applied to an arbitrary list of instants *)

InstantLists == UNION { [1..n -> 0..MaxInstant] : n \in 0..MaxLen }

CdInit ==
    /\ TaskInit
    /\ ld = IdleLoad
    /\ \E recurrences \in InstantLists :
         cd = [recurrences |-> recurrences, applied |-> FALSE, result |-> <<>>]

CdApply ==
    /\ ~cd.applied
    /\ cd' = [cd EXCEPT !.applied = TRUE, !.result = compileDifferences(cd.recurrences)]
    /\ UNCHANGED <<task, warnings, clock, ops, journal, ld>>

CdNext == CdApply

SpecCd == CdInit /\ [][CdNext]_vars

-----------------------------------------------------------------------------
(* Properties.  The journal names, for pass i of the last AddSchedules     *)
(* call, the schedule, the value of now and the sizes of the lists before  *)
(* (passes[i]) and after (passes[i + 1]) the pass.                         *)

CalendarTriggers == task.Triggers.CalendarTrigger
TimeTriggers == task.Triggers.TimeTrigger

Passes == 1..Len(journal.schedules)

\* what pass i added
AddedCalendar(i) ==
    SubSeq(CalendarTriggers, journal.passes[i].calendar + 1, journal.passes[i + 1].calendar)
AddedTriggers(i) ==
    (journal.passes[i + 1].calendar - journal.passes[i].calendar)
        + (journal.passes[i + 1].time - journal.passes[i].time)
AddedWarnings(i) == journal.passes[i + 1].warnings - journal.passes[i].warnings

\* the firings of pass i's schedule in the 24 hours from its next firing
WindowStart(i) == EventNext(journal.schedules[i], journal.nows[i])
Window(i) ==
    GetAllInBetween(journal.schedules[i], WindowStart(i), WindowStart(i) + MinutesPerDay)

Gap(w, k) == w[k + 1] - w[k]
EvenlySpaced(w) == \A j, k \in 1..(Len(w) - 1) : Gap(w, j) = Gap(w, k)

DailyPass(i) == ~AsTimeOk(journal.schedules[i]) /\ IsDaily(journal.schedules[i])
WeeklyPass(i) ==
    /\ ~AsTimeOk(journal.schedules[i]) /\ ~IsDaily(journal.schedules[i])
    /\ IsWeekly(journal.schedules[i])
MonthlyPass(i) ==
    /\ ~AsTimeOk(journal.schedules[i]) /\ ~IsDaily(journal.schedules[i])
    /\ ~IsWeekly(journal.schedules[i]) /\ IsMonthly(journal.schedules[i])
UnsupportedPass(i) ==
    /\ ~AsTimeOk(journal.schedules[i]) /\ ~IsDaily(journal.schedules[i])
    /\ ~IsWeekly(journal.schedules[i]) /\ ~IsMonthly(journal.schedules[i])

\* C1: after any sequence of AddSchedules calls the task holds at most
\* maxTriggers triggers, TimeTrigger and CalendarTrigger entries together.
\* (The code caps each event on its own, so this fails.)
C1_TotalTriggersCapped == Len(TimeTriggers) + Len(CalendarTriggers) <= maxTriggers

HasDaysOfMonth(trigger) == trigger.ScheduleByMonth # Nil
HasDaysOfWeek(trigger) ==
    trigger.ScheduleByWeek # Nil \/ trigger.ScheduleByMonthDayOfWeek # Nil
SchedulesSet(trigger) ==
    { f \in {"ScheduleByDay", "ScheduleByWeek", "ScheduleByMonth",
             "ScheduleByMonthDayOfWeek"} : trigger[f] # Nil }

\* C2: no CalendarTrigger of the task carries both days of the month and
\* days of the week, and each has exactly one of its four schedules set.
C2_Exclusive ==
    \A k \in 1..Len(CalendarTriggers) :
        /\ ~(HasDaysOfMonth(CalendarTriggers[k]) /\ HasDaysOfWeek(CalendarTriggers[k]))
        /\ Cardinality(SchedulesSet(CalendarTriggers[k])) = 1

\* a call that was given a monthly schedule with both fields set (and firing)
\* and one with the day of the month only, which got its ScheduleByMonth
C2_Witness ==
    /\ \E i \in Passes :
         /\ MonthlyPass(i) /\ Window(i) # <<>>
         /\ HasValue(journal.schedules[i].Day) /\ HasValue(journal.schedules[i].WeekDay)
    /\ \E k \in 1..Len(CalendarTriggers) : HasDaysOfMonth(CalendarTriggers[k])

\* C3: every CalendarTrigger with a RepetitionPattern (only addDailyTrigger
\* and addWeeklyTrigger set one) has 0 < Interval <= Duration.
C3_IntervalWithinDuration ==
    \A k \in 1..Len(CalendarTriggers) :
        CalendarTriggers[k].Repetition # Nil =>
            LET r == CalendarTriggers[k].Repetition[1]
            IN  /\ DurationApprox(r.Interval) > 0
                /\ DurationApprox(r.Interval) <= DurationApprox(r.Duration)

\* a daily and a weekly trigger with a repetition are in the task
C3_Witness ==
    /\ \E k \in 1..Len(CalendarTriggers) :
         CalendarTriggers[k].Repetition # Nil /\ CalendarTriggers[k].ScheduleByDay # Nil
    /\ \E k \in 1..Len(CalendarTriggers) :
         CalendarTriggers[k].Repetition # Nil /\ CalendarTriggers[k].ScheduleByWeek # Nil

OverCapUneven(i) ==
    /\ DailyPass(i) \/ WeeklyPass(i)
    /\ Len(Window(i)) > maxTriggers
    /\ ~EvenlySpaced(Window(i))

\* C4: a daily or weekly event with more than maxTriggers firings in its
\* window, not evenly spaced, gets no trigger and exactly one warning.
C4_OverCapWarnsOnce ==
    \A i \in Passes :
        OverCapUneven(i) => AddedTriggers(i) = 0 /\ AddedWarnings(i) = 1

\* a call that was given such a daily event and such a weekly event
C4_Witness ==
    /\ \E i \in Passes : DailyPass(i) /\ OverCapUneven(i)
    /\ \E i \in Passes : WeeklyPass(i) /\ OverCapUneven(i)

Skipped(i) == AddedTriggers(i) = 0 /\ AddedWarnings(i) = 1
Converted(i) == AddedTriggers(i) >= 1 /\ AddedWarnings(i) = 0

\* C5: every event of the list given to AddSchedules is either converted
\* (at least one trigger, no warning) or skipped (no trigger, one warning);
\* unsupported events, events without a firing, events over the cap and
\* monthly events with both Day and WeekDay are skipped; and every event of
\* the list is processed, whatever happened to the ones before it.
C5_EachEventConvertedOrSkipped ==
    /\ Len(journal.passes) = Len(journal.schedules) + 1 \/ journal = NoCall
    /\ \A i \in Passes :
        /\ Converted(i) \/ Skipped(i)
        /\ UnsupportedPass(i) => Skipped(i)
        /\ (~AsTimeOk(journal.schedules[i]) /\ Window(i) = <<>>) => Skipped(i)
        /\ OverCapUneven(i) => Skipped(i)
        /\ (MonthlyPass(i) /\ Len(Window(i)) > maxTriggers) => Skipped(i)
        /\ (MonthlyPass(i) /\ HasValue(journal.schedules[i].Day)
                /\ HasValue(journal.schedules[i].WeekDay)) => Skipped(i)
    /\ journal # NoCall =>
        /\ Len(CalendarTriggers) = journal.passes[Len(journal.passes)].calendar
        /\ Len(TimeTriggers) = journal.passes[Len(journal.passes)].time
        /\ Len(warnings) = journal.passes[Len(journal.passes)].warnings

\* a call whose first event was skipped and whose second event was converted
C5_Witness ==
    /\ Len(journal.schedules) = 2
    /\ Skipped(1) /\ Converted(2)
    /\ MonthlyPass(1) /\ MonthlyPass(2)

\* C6: loadSchedules goes through the schedules in index order and stops at
\* the first one that is empty or that the analyzer rejects: with k the
\* smallest such index, the analyzer ran once for each index below k, for k
\* only when schedule k is not empty, for no index above k, and an error is
\* returned; without such k it ran once per schedule and no error is returned.
Offending ==
    { i \in 1..Len(ld.schedules) : ld.schedules[i] = "" \/ ld.exit[i] # 0 }
FirstOffending == CHOOSE k \in Offending : \A i \in Offending : k <= i
UpTo(n) == [i \in 1..n |-> i]

C6_InOrderFailFast ==
    /\ ld.pc = "loop" => ld.invoked = UpTo(ld.index - 1)
    /\ ld.pc = "returned" =>
        IF Offending # {}
        THEN /\ ld.invoked = IF ld.schedules[FirstOffending] = ""
                             THEN UpTo(FirstOffending - 1)
                             ELSE UpTo(FirstOffending)
             /\ ld.err # NoError
        ELSE /\ ld.invoked = UpTo(Len(ld.schedules))
             /\ ld.err = NoError

\* a call of three schedules returned at the second, which the analyzer
\* rejected, the third being one that would have been rejected as well
C6_Witness ==
    /\ ld.pc = "returned"
    /\ Len(ld.schedules) = 3
    /\ Offending = {2, 3}
    /\ ld.schedules[2] # ""
    /\ ld.schedules[3] = ""

DayName(weekday) ==
    CASE weekday \in {0, 7} -> "Sunday"
      [] weekday = 1 -> "Monday"
      [] weekday = 2 -> "Tuesday"
      [] weekday = 3 -> "Wednesday"
      [] weekday = 4 -> "Thursday"
      [] weekday = 5 -> "Friday"
      [] weekday = 6 -> "Saturday"

Uniform(i) ==
    /\ DailyPass(i) \/ WeeklyPass(i)
    /\ Len(Window(i)) >= 2
    /\ EvenlySpaced(Window(i))

Span(w) == w[Len(w)] - w[1]

C9_Total ==
    cd.applied =>
        /\ ~cd.result.panic
        /\ Len(cd.recurrences) <= 1 =>
             cd.result.differences = <<>> /\ cd.result.compact = <<>>

\* C9, amended: compileDifferences returns for every list of at least one
\* instant, with two empty lists for exactly one instant; for the empty list
\* it panics (a slice of length -1).
C9_TotalOnNonEmpty ==
    cd.applied =>
        /\ cd.result.panic <=> Len(cd.recurrences) = 0
        /\ Len(cd.recurrences) = 1 =>
             cd.result.differences = <<>> /\ cd.result.compact = <<>>

\* compileDifferences was applied to a list of one instant
C9_Witness == cd.applied /\ Len(cd.recurrences) = 1

Differences == [k \in 1..(Len(cd.recurrences) - 1) |-> Gap(cd.recurrences, k)]
AllEqual(d) == \A j, k \in 1..Len(d) : d[j] = d[k]

CompactShape ==
    /\ ~cd.result.panic
    /\ cd.result.differences = Differences
    /\ Len(cd.result.differences) = Len(cd.recurrences) - 1
    /\ Len(cd.result.compact) >= 1
    /\ cd.result.compact[1] = cd.result.differences[1]
    /\ Len(cd.result.compact) = 1 <=> AllEqual(Differences)

\* C10 as stated: for n >= 2 instants in ascending order, every difference
\* >= 0, there are n - 1 differences, and the compact list starts with the
\* first difference, is not empty, and has one element exactly when all the
\* differences are equal.
C10_CompactOfAscending ==
    (/\ cd.applied
     /\ Len(cd.recurrences) >= 2
     /\ \A k \in 1..(Len(cd.recurrences) - 1) : Gap(cd.recurrences, k) >= 0)
        => CompactShape

\* C10, amended: the same, for n >= 2 instants in ascending order of which
\* the first two are distinct (the first difference > 0, the others >= 0).
C10_CompactOfAscendingFrom ==
    (/\ cd.applied
     /\ Len(cd.recurrences) >= 2
     /\ Gap(cd.recurrences, 1) > 0
     /\ \A k \in 1..(Len(cd.recurrences) - 1) : Gap(cd.recurrences, k) >= 0)
        => CompactShape

\* compileDifferences was applied to three instants with two different
\* differences
C10_Witness ==
    /\ cd.applied
    /\ Len(cd.recurrences) = 3
    /\ Gap(cd.recurrences, 1) > 0
    /\ Gap(cd.recurrences, 2) > Gap(cd.recurrences, 1)

IsPrefix(s, t) == Len(s) <= Len(t) /\ SubSeq(t, 1, Len(s)) = s

\* the step is a call of AddExecAction, of AddSchedules
ExecActionStep == ops' = ops + 1 /\ journal' = journal
SchedulesStep == journal' # journal

\* C11: the builder only appends.  Over every call the TimeTrigger list, the
\* CalendarTrigger list and the Exec list before the call are prefixes of the
\* lists after it; AddExecAction leaves the two trigger lists as they are and
\* adds exactly one action; AddSchedules leaves the actions, Settings,
\* Principals and RegistrationInfo as they are.
C11_AppendOnly ==
    [][/\ IsPrefix(task.Triggers.TimeTrigger, task'.Triggers.TimeTrigger)
       /\ IsPrefix(task.Triggers.CalendarTrigger, task'.Triggers.CalendarTrigger)
       /\ IsPrefix(task.Actions.Exec, task'.Actions.Exec)
       /\ ExecActionStep =>
            /\ task'.Triggers = task.Triggers
            /\ Len(task'.Actions.Exec) = Len(task.Actions.Exec) + 1
       /\ SchedulesStep =>
            /\ task'.Actions = task.Actions
            /\ task'.Settings = task.Settings
            /\ task'.Principals = task.Principals
            /\ task'.RegistrationInfo = task.RegistrationInfo]_vars

\* AddSchedules added a second CalendarTrigger to a task that held one
C11_Witness ==
    /\ journal # NoCall
    /\ journal.passes[1].calendar = 1
    /\ Len(CalendarTriggers) = 2
    /\ CalendarTriggers[1] # CalendarTriggers[2]

UsesRepetition(i) ==
    \E k \in 1..Len(AddedCalendar(i)) : AddedCalendar(i)[k].Repetition # Nil

\* C12: for one daily event the shape of what addDailyTrigger adds does not
\* depend on now: two passes over the same daily event, at whatever values
\* of now, add the same number of CalendarTriggers and agree on the use of a
\* RepetitionPattern.  (The window starts at the next firing after now, so
\* the same firings are evenly spaced from one start and not from another.)
C12_ShapeIndependentOfNow ==
    \A i, j \in Passes :
        (DailyPass(i) /\ DailyPass(j) /\ journal.schedules[i] = journal.schedules[j]) =>
            /\ Len(AddedCalendar(i)) = Len(AddedCalendar(j))
            /\ UsesRepetition(i) = UsesRepetition(j)

=============================================================================
